---- MODULE Spec2Model ----
(***************************************************************************)
(* Model of app.py: the draft store (DRAFTS), the media aggregator, the    *)
(* payload resolver, the timer parser and the per-user delayed publish     *)
(* job (SCHEDULES and the asyncio task created by cmd_timer).              *)
(*                                                                         *)
(* Draft objects live in a heap of object references, so that aliasing     *)
(* (a job holding the very object stored in DRAFTS) is expressible.        *)
(* Updates are dispatched one at a time; a handler suspended in an await   *)
(* (on_cb while publishing) lets the job tasks and the clock run, but no   *)
(* other handler.  A job task advances from one await to the next.         *)
(***************************************************************************)
EXTENDS Integers, Sequences, FiniteSets, TLC

(* ---------------------------- bounds ----------------------------------- *)
MaxJobs == 2
MaxTime == 1
MaxMedia == 1
MaxAdds == 4

(* ------------------------- program constants --------------------------- *)
ADMIN_USER_ID == 211779388
AlbumLimit == 10
MinutesPerDay == 1440

Users == {ADMIN_USER_ID, ADMIN_USER_ID + 1}
Texts == {"a"}
Captions == {"", "a"}
MediaIn == {<<"photo", "f1">>}
ObjIds == 1 .. (MaxJobs + 3)
NoObj == 0
NoTask == 0

(* time expressions as the three regular expressions split them *)
TimerArgs ==
    { [form |-> "rel", n |-> 0, unit |-> "m"],
      [form |-> "rel", n |-> 1, unit |-> "min"],
      [form |-> "hhmm", hh |-> 24, mm |-> 0],
      [form |-> "nomatch"],
      [form |-> "noargs"] }

VARIABLES
    now,        \* datetime.now(LOCAL_TZ), in minutes
    heap,       \* the Draft objects, by reference
    DRAFTS,     \* user id -> reference of the user's Draft
    SCHEDULES,  \* user id -> ScheduledJob(when, task)
    jobs,       \* the tasks created by cmd_timer, in creation order
    h,          \* the on_cb call suspended in an await, or Idle
    channel,    \* what the last step delivered to TARGET_CHAT, or NoPost
    sent,       \* what the last step of a task sent to the operator, or NoMsg
    reply,      \* what the last step of a handler answered, or NoMsg
    probe       \* a function applied on its own: its arguments and result, or NoProbe

vars == <<now, heap, DRAFTS, SCHEDULES, jobs, h, channel, sent, reply, probe>>

(* ------------------------------ models --------------------------------- *)
Draft == [text |-> "", media |-> <<>>]

is_empty(d) == d.text = "" /\ d.media = <<>>

Idle == [op |-> "idle"]

Put(f, k, v) == [x \in (DOMAIN f) \cup {k} |-> IF x = k THEN v ELSE f[x]]

Pop(f, k) == [x \in (DOMAIN f) \ {k} |-> f[x]]

Alloc(hp) == CHOOSE i \in ObjIds : i \notin DOMAIN hp /\ \A k \in ObjIds : k < i => k \in DOMAIN hp

New(hp, d) == [heap |-> Put(hp, Alloc(hp), d), d |-> Alloc(hp)]

copy_alias(hp, ref) == [heap |-> hp, d |-> ref]

copy(hp, ref) == New(hp, [text |-> hp[ref].text, media |-> hp[ref].media])

get_draft(hp, ds, u) ==
    IF u \notin DOMAIN ds
    THEN [heap |-> New(hp, Draft).heap, DRAFTS |-> Put(ds, u, New(hp, Draft).d), d |-> New(hp, Draft).d]
    ELSE [heap |-> hp, DRAFTS |-> ds, d |-> ds[u]]

authorized_any(u) == u \in Users

authorized(u) == u = ADMIN_USER_ID

(* objects still referenced: the store, the closures of unfinished tasks, *)
(* the local d of a suspended on_cb                                        *)
Live(ds, js, hh) ==
    {ds[u] : u \in DOMAIN ds}
    \cup {js[j].draft : j \in {k \in DOMAIN js : js[k].pc # "done"}}
    \cup (IF hh.op = "pub" THEN {hh.d} ELSE {})

Collect(hp, live) == [i \in (DOMAIN hp) \cap live |-> hp[i]]

(* --------------------------- media aggregator -------------------------- *)
IsPV(m) == m[1] \in {"photo", "video"}

Last_head(s, n) == IF Len(s) <= n THEN s ELSE SubSeq(s, 1, n)

(* s[-n:] *)
Last(s, n) == IF Len(s) <= n THEN s ELSE SubSeq(s, Len(s) - n + 1, Len(s))

RECURSIVE Reversed(_)
Reversed(s) == IF s = <<>> THEN <<>> ELSE Append(Reversed(Tail(s)), Head(s))

Collapse_keep(rs, seen) == rs

(* the loop of lines 151-158 over reversed(draft.media) *)
RECURSIVE Collapse(_, _)
Collapse(rs, seen) ==
    IF rs = <<>> THEN <<>>
    ELSE IF IsPV(Head(rs)) THEN <<Head(rs)>> \o Collapse(Tail(rs), seen)
    ELSE IF Head(rs)[1] \notin seen THEN <<Head(rs)>> \o Collapse(Tail(rs), seen \cup {Head(rs)[1]})
    ELSE Collapse(Tail(rs), seen)

add_media_to_draft(d, kind, file_id) ==
    IF kind \in {"photo", "video"}
    THEN [d EXCEPT !.media = Last(Append(d.media, <<kind, file_id>>), AlbumLimit)]
    ELSE [d EXCEPT !.media = Reversed(Collapse(Reversed(Append(d.media, <<kind, file_id>>)), {}))]

(* msg.text / msg.caption already stripped; an empty one leaves the text *)
set_text_from(d, t) == IF t # "" THEN [d EXCEPT !.text = t] ELSE d

(* --------------------------- payload resolver -------------------------- *)
None == <<>>
Some(x) == <<x>>
OrNone(t) == IF t = "" THEN None ELSE Some(t)

PV(media) == SelectSeq(media, IsPV)

draft_to_media_group_all(d) ==
    IF Len(PV(d.media)) < 2 THEN None
    ELSE Some([idx \in 1 .. Len(PV(d.media)) |->
                 [kind |-> PV(d.media)[idx][1], media |-> PV(d.media)[idx][2],
                  caption |-> Some(d.text)]])

draft_to_media_group(d) ==
    IF Len(PV(d.media)) < 2 THEN None
    ELSE Some([idx \in 1 .. Len(PV(d.media)) |->
                 [kind |-> PV(d.media)[idx][1], media |-> PV(d.media)[idx][2],
                  caption |-> IF idx = 1 THEN Some(d.text) ELSE None]])

(* the transport call publish_to_channel issues for d *)
publish_to_channel(d) ==
    IF draft_to_media_group(d) # None
    THEN [call |-> "send_media_group", media |-> draft_to_media_group(d)[1]]
    ELSE IF d.media # <<>>
    THEN [call |-> "send_" \o d.media[Len(d.media)][1], media |-> d.media[Len(d.media)][2],
          caption |-> OrNone(d.text)]
    ELSE [call |-> "send_message", text |-> d.text]

(* the transport call send_preview issues for d, to the operator's chat *)
send_preview(d) ==
    IF draft_to_media_group(d) # None
    THEN [call |-> "send_media_group", media |-> draft_to_media_group(d)[1]]
    ELSE IF d.media # <<>>
    THEN [call |-> "send_" \o d.media[Len(d.media)][1], media |-> d.media[Len(d.media)][2],
          caption |-> OrNone(d.text)]
    ELSE [call |-> "send_message", text |-> IF d.text = "" THEN "empty_draft" ELSE d.text]

(* ----------------------------- timer parser ---------------------------- *)
NoWhen == -1
ValueError == -2

(* the calendar of datetime, in minutes from the first day of EpochYear *)
EpochYear == 2024

Leap(y) == y % 4 = 0 /\ (y % 100 # 0 \/ y % 400 = 0)

DaysInMonth(y, mo) ==
    IF mo = 2 THEN (IF Leap(y) THEN 29 ELSE 28)
    ELSE IF mo \in {4, 6, 9, 11} THEN 30 ELSE 31

RECURSIVE DaysBeforeMonth(_, _)
DaysBeforeMonth(y, mo) == IF mo = 1 THEN 0 ELSE DaysInMonth(y, mo - 1) + DaysBeforeMonth(y, mo - 1)

RECURSIVE DaysBeforeYear(_)
DaysBeforeYear(y) ==
    IF y <= EpochYear THEN 0 ELSE (IF Leap(y - 1) THEN 366 ELSE 365) + DaysBeforeYear(y - 1)

(* datetime(y, mo, d, hh, mm) raises ValueError outside these ranges *)
ValidDate(y, mo, d, hh, mm) ==
    /\ y >= 1
    /\ mo \in 1 .. 12
    /\ d >= 1 /\ d <= DaysInMonth(y, mo)
    /\ hh <= 23 /\ mm <= 59

datetime(y, mo, d, hh, mm) ==
    (DaysBeforeYear(y) + DaysBeforeMonth(y, mo) + d - 1) * MinutesPerDay + hh * 60 + mm

(* lines 250-256: now.replace(hour=hh, minute=mm), rolled over when not after now *)
parse_when_hhmm(s, t) ==
    IF s.hh > 23 \/ s.mm > 59 THEN ValueError
    ELSE IF (t - (t % MinutesPerDay)) + s.hh * 60 + s.mm <= t
         THEN (t - (t % MinutesPerDay)) + s.hh * 60 + s.mm + MinutesPerDay
         ELSE (t - (t % MinutesPerDay)) + s.hh * 60 + s.mm

parse_when(s, t) ==
    IF s.form = "hhmm"
    THEN parse_when_hhmm(s, t)
    ELSE IF s.form = "abs"
    THEN IF ValidDate(s.y, s.mo, s.d, s.hh, s.mm) THEN datetime(s.y, s.mo, s.d, s.hh, s.mm) ELSE NoWhen
    ELSE IF s.form = "rel"
    THEN IF s.unit \in {"m", "min"} THEN t + s.n
         ELSE IF s.unit \in {"h", "hr"} THEN t + 60 * s.n
         ELSE t + MinutesPerDay * s.n
    ELSE NoWhen

(* ------------------------------ asyncio -------------------------------- *)
(* a finished task: its frame (when, draft, e) is released *)
DoneTask ==
    [uid |-> ADMIN_USER_ID, when |-> NoWhen, draft |-> NoObj, pc |-> "done", must_cancel |-> FALSE,
     arg |-> Draft, calls |-> 0, err |-> "", snap |-> Draft, cut |-> "", by |-> ""]

done(js, t) == js[t].pc = "done"

(* Task.cancel(): request a CancelledError at the task's current await *)
cancel(js, t) == [js EXCEPT ![t].must_cancel = TRUE]

(* a cancelled task is woken before anything scheduled after the cancel *)
Ready == \A j \in DOMAIN jobs : ~(jobs[j].must_cancel /\ ~done(jobs, j))

(* a task that has not reached publish_to_channel yet *)
Unfired(js, t) == js[t].pc \in {"created", "sleep"}

cancel_old_never(js, scheds, u) == js

(* lines 344-346: old = SCHEDULES.get(uid); cancel it unless done *)
cancel_old(js, scheds, u) ==
    IF u \in DOMAIN scheds /\ ~done(js, scheds[u].task)
    THEN cancel(js, scheds[u].task)
    ELSE js

pop_and_cancel_never(js, scheds, u) == js

(* sched = SCHEDULES.pop(uid, None); cancel it unless done *)
pop_and_cancel(js, scheds, u) ==
    IF u \in DOMAIN scheds /\ ~done(js, scheds[u].task)
    THEN cancel(js, scheds[u].task)
    ELSE js

(* history: which operation dropped the registered task, and where it stood *)
Mark(js, scheds, u, who) ==
    IF u \in DOMAIN scheds /\ ~done(js, scheds[u].task) /\ js[scheds[u].task].by = ""
    THEN [js EXCEPT ![scheds[u].task].cut = js[scheds[u].task].pc, ![scheds[u].task].by = who]
    ELSE js

NoMsg == [msg |-> "", when |-> NoWhen, task |-> NoTask]
R(msg) == [NoMsg EXCEPT !.msg = msg]
M(t, msg) == [NoMsg EXCEPT !.msg = msg, !.task = t]

NoPost == [by |-> NoTask, d |-> Draft, snap |-> Draft]
PostOf(js, j) == [by |-> j, d |-> js[j].arg, snap |-> js[j].snap]

(* the handlers and tasks apply no function on its own *)
NoProbe == <<>>

(* ------------------------------- state --------------------------------- *)
Init ==
    /\ now = 0
    /\ heap = <<>>
    /\ DRAFTS = <<>>
    /\ SCHEDULES = <<>>
    /\ jobs = <<>>
    /\ h = Idle
    /\ channel = NoPost
    /\ sent = NoMsg
    /\ reply = NoMsg
    /\ probe = NoProbe

(* the coroutine job() of cmd_timer as created by asyncio.create_task *)
ScheduledTask(u, when, ref, snap) ==
    [uid |-> u, when |-> when, draft |-> ref, pc |-> "created", must_cancel |-> FALSE,
     arg |-> Draft, calls |-> 0, err |-> "", snap |-> snap, cut |-> "", by |-> ""]

(* ------------------------------ handlers ------------------------------- *)
(* an update of user u reaches its handler *)
ensure_auth(u) == authorized(u) /\ h = Idle /\ Ready

Unauthorized(u) ==
    /\ UNCHANGED probe
    /\ ~authorized(u)
    /\ h = Idle /\ Ready
    /\ reply' = R("denied")
    /\ channel' = NoPost /\ sent' = NoMsg
    /\ UNCHANGED <<now, heap, DRAFTS, SCHEDULES, jobs, h>>

OnText(u, t) ==
    /\ UNCHANGED probe
    /\ ensure_auth(u)
    /\ LET g == get_draft(heap, DRAFTS, u) IN
         /\ DRAFTS' = g.DRAFTS
         /\ heap' = [g.heap EXCEPT ![g.d] = set_text_from(@, t)]
    /\ reply' = R("summary")
    /\ channel' = NoPost /\ sent' = NoMsg
    /\ UNCHANGED <<now, SCHEDULES, jobs, h>>

OnMedia(u, m, cap) ==
    /\ UNCHANGED probe
    /\ ensure_auth(u)
    /\ LET g == get_draft(heap, DRAFTS, u)
           d == set_text_from(add_media_to_draft(g.heap[g.d], m[1], m[2]), cap) IN
         /\ Len(d.media) <= MaxMedia
         /\ DRAFTS' = g.DRAFTS
         /\ heap' = [g.heap EXCEPT ![g.d] = d]
    /\ reply' = R("summary")
    /\ channel' = NoPost /\ sent' = NoMsg
    /\ UNCHANGED <<now, SCHEDULES, jobs, h>>

timer_reject_drops(msg) ==
    /\ reply' = R(msg)
    /\ SCHEDULES' = <<>>
    /\ jobs' = [j \in DOMAIN jobs |-> IF done(jobs, j) THEN jobs[j] ELSE cancel(jobs, j)[j]]

(* the early returns of cmd_timer, lines 324-342: a message and nothing else *)
timer_reject(msg) ==
    /\ reply' = R(msg)
    /\ UNCHANGED <<SCHEDULES, jobs>>

CmdTimer(u, s) ==
    /\ UNCHANGED probe
    /\ ensure_auth(u)
    /\ channel' = NoPost /\ sent' = NoMsg
    /\ UNCHANGED <<now, h>>
    /\ IF s.form = "noargs"
       THEN timer_reject("usage") /\ UNCHANGED <<heap, DRAFTS>>
       ELSE IF parse_when(s, now) = ValueError
       THEN reply' = R("exception") /\ UNCHANGED <<heap, DRAFTS, SCHEDULES, jobs>>
       ELSE IF parse_when(s, now) = NoWhen
       THEN timer_reject("bad_time") /\ UNCHANGED <<heap, DRAFTS>>
       ELSE LET g == get_draft(heap, DRAFTS, u)
                c == copy(g.heap, g.d)
                t == Len(jobs) + 1 IN
            IF is_empty(c.heap[c.d])
            THEN /\ timer_reject("empty")
                 /\ DRAFTS' = g.DRAFTS
                 /\ heap' = Collect(c.heap, Live(g.DRAFTS, jobs', h))
            ELSE /\ Len(jobs) < MaxJobs
                 /\ jobs' = Append(Mark(cancel_old(jobs, SCHEDULES, u), SCHEDULES, u, "timer"),
                                   ScheduledTask(u, parse_when(s, now), c.d, g.heap[g.d]))
                 /\ SCHEDULES' = Put(SCHEDULES, u, [when |-> parse_when(s, now), task |-> t])
                 /\ DRAFTS' = g.DRAFTS
                 /\ heap' = Collect(c.heap, Live(g.DRAFTS, jobs', h))
                 /\ reply' = [R("scheduled") EXCEPT !.when = parse_when(s, now)]

CmdCancelTimer(u) ==
    /\ UNCHANGED probe
    /\ ensure_auth(u)
    /\ SCHEDULES' = Pop(SCHEDULES, u)
    /\ jobs' = Mark(pop_and_cancel(jobs, SCHEDULES, u), SCHEDULES, u, "cancel")
    /\ reply' = IF u \in DOMAIN SCHEDULES /\ ~done(jobs, SCHEDULES[u].task)
                THEN R("cancelled") ELSE R("no_timer")
    /\ channel' = NoPost /\ sent' = NoMsg
    /\ UNCHANGED <<now, heap, DRAFTS, h>>

CmdWhen(u) ==
    /\ UNCHANGED probe
    /\ ensure_auth(u)
    /\ reply' = IF u \notin DOMAIN SCHEDULES THEN R("none")
                ELSE [R("scheduled") EXCEPT !.when = SCHEDULES[u].when]
    /\ channel' = NoPost /\ sent' = NoMsg
    /\ UNCHANGED <<now, heap, DRAFTS, SCHEDULES, jobs, h>>

(* on_cb, q.data == "prev" *)
OnCbPrev(u) ==
    /\ UNCHANGED probe
    /\ ensure_auth(u)
    /\ LET g == get_draft(heap, DRAFTS, u) IN
         /\ DRAFTS' = g.DRAFTS
         /\ heap' = g.heap
         /\ reply' = IF is_empty(g.heap[g.d]) THEN R("empty_preview") ELSE R("preview")
    /\ channel' = NoPost /\ sent' = NoMsg
    /\ UNCHANGED <<now, SCHEDULES, jobs, h>>

(* on_cb, q.data == "pub": up to the await of publish_to_channel(d) *)
OnCbPub(u) ==
    /\ UNCHANGED probe
    /\ ensure_auth(u)
    /\ LET g == get_draft(heap, DRAFTS, u) IN
         /\ DRAFTS' = g.DRAFTS
         /\ heap' = g.heap
         /\ IF is_empty(g.heap[g.d])
            THEN reply' = R("nothing") /\ h' = h
            ELSE /\ h' = [op |-> "pub", uid |-> u, d |-> g.d, arg |-> g.heap[g.d], stage |-> "publish"]
                 /\ reply' = NoMsg
    /\ channel' = NoPost /\ sent' = NoMsg
    /\ UNCHANGED <<now, SCHEDULES, jobs>>

(* the transport call of publish-now succeeds; next await: edit_message_text *)
PubSent ==
    /\ UNCHANGED probe
    /\ h.op = "pub" /\ h.stage = "publish" /\ Ready
    /\ channel' = [by |-> NoTask, d |-> h.arg, snap |-> h.arg]
    /\ h' = [h EXCEPT !.stage = "edit"]
    /\ reply' = NoMsg /\ sent' = NoMsg
    /\ UNCHANGED <<now, heap, DRAFTS, SCHEDULES, jobs>>

pub_failed_clears(hp, ds, u) == [heap |-> New(hp, Draft).heap, DRAFTS |-> Put(ds, u, New(hp, Draft).d)]

(* lines 500-502: the except branch of publish-now leaves the stores alone *)
pub_failed(hp, ds, u) == [heap |-> hp, DRAFTS |-> ds]

(* the transport call, or the edit of the prompt, raises *)
PubFailed ==
    /\ UNCHANGED probe
    /\ h.op = "pub" /\ Ready
    /\ h' = Idle
    /\ reply' = IF h.stage = "publish" THEN R("pub_error") ELSE R("pub_error_edit")
    /\ DRAFTS' = pub_failed(heap, DRAFTS, h.uid).DRAFTS
    /\ heap' = Collect(pub_failed(heap, DRAFTS, h.uid).heap, Live(DRAFTS', jobs, h'))
    /\ channel' = NoPost /\ sent' = NoMsg
    /\ UNCHANGED <<now, SCHEDULES, jobs>>

(* lines 495-499 *)
PubDone ==
    /\ UNCHANGED probe
    /\ h.op = "pub" /\ h.stage = "edit" /\ Ready
    /\ h' = Idle
    /\ reply' = R("published")
    /\ DRAFTS' = Put(DRAFTS, h.uid, New(heap, Draft).d)
    /\ SCHEDULES' = Pop(SCHEDULES, h.uid)
    /\ jobs' = Mark(pop_and_cancel(jobs, SCHEDULES, h.uid), SCHEDULES, h.uid, "pub")
    /\ heap' = Collect(New(heap, Draft).heap, Live(DRAFTS', jobs', h'))
    /\ channel' = NoPost /\ sent' = NoMsg
    /\ UNCHANGED <<now>>

(* on_cb, q.data == "clr": up to the await of edit_message_text *)
OnCbClr(u) ==
    /\ UNCHANGED probe
    /\ ensure_auth(u)
    /\ LET g == get_draft(heap, DRAFTS, u) IN
         /\ DRAFTS' = Put(g.DRAFTS, u, New(g.heap, Draft).d)
         /\ h' = [op |-> "clr", uid |-> u]
         /\ heap' = Collect(New(g.heap, Draft).heap, Live(DRAFTS', jobs, h'))
    /\ reply' = NoMsg /\ channel' = NoPost /\ sent' = NoMsg
    /\ UNCHANGED <<now, SCHEDULES, jobs>>

(* lines 507-510 *)
ClrDone ==
    /\ UNCHANGED probe
    /\ h.op = "clr" /\ Ready
    /\ h' = Idle
    /\ reply' = R("cleared")
    /\ SCHEDULES' = Pop(SCHEDULES, h.uid)
    /\ jobs' = Mark(pop_and_cancel(jobs, SCHEDULES, h.uid), SCHEDULES, h.uid, "clr")
    /\ channel' = NoPost /\ sent' = NoMsg
    /\ UNCHANGED <<now, heap, DRAFTS>>

(* edit_message_text raises: the handler ends before line 508 *)
ClrFailed ==
    /\ UNCHANGED probe
    /\ h.op = "clr" /\ Ready
    /\ h' = Idle
    /\ reply' = R("exception")
    /\ channel' = NoPost /\ sent' = NoMsg
    /\ UNCHANGED <<now, heap, DRAFTS, SCHEDULES, jobs>>

(* ----------------------------- the job task ---------------------------- *)
Finish(js, j) == [js EXCEPT ![j] = DoneTask]

(* line 353: the call of publish_to_channel(draft) *)
BeginPublish(js, j) ==
    [js EXCEPT ![j].pc = "publish", ![j].arg = heap[js[j].draft], ![j].calls = @ + 1]

JobStart_skip(j) ==
    /\ UNCHANGED probe
    /\ jobs[j].pc = "created" /\ Ready
    /\ jobs' = IF jobs[j].when - now > 0 THEN [jobs EXCEPT ![j].pc = "sleep"] ELSE Finish(jobs, j)
    /\ reply' = NoMsg /\ channel' = NoPost /\ sent' = NoMsg
    /\ UNCHANGED <<now, heap, DRAFTS, SCHEDULES, h>>

(* first step of the task: lines 350-353 *)
JobStart(j) ==
    /\ UNCHANGED probe
    /\ jobs[j].pc = "created" /\ Ready
    /\ jobs' = IF jobs[j].when - now > 0 THEN [jobs EXCEPT ![j].pc = "sleep"] ELSE BeginPublish(jobs, j)
    /\ reply' = NoMsg /\ channel' = NoPost /\ sent' = NoMsg
    /\ UNCHANGED <<now, heap, DRAFTS, SCHEDULES, h>>

(* asyncio.sleep(delay) returns *)
JobWake(j) ==
    /\ UNCHANGED probe
    /\ jobs[j].pc = "sleep" /\ Ready
    /\ now >= jobs[j].when
    /\ jobs' = BeginPublish(jobs, j)
    /\ reply' = NoMsg /\ channel' = NoPost /\ sent' = NoMsg
    /\ UNCHANGED <<now, heap, DRAFTS, SCHEDULES, h>>

(* publish_to_channel returns; next await: the confirmation, line 354 *)
JobPublished(j) ==
    /\ UNCHANGED probe
    /\ jobs[j].pc = "publish" /\ Ready
    /\ channel' = PostOf(jobs, j)
    /\ jobs' = [jobs EXCEPT ![j].pc = "confirm"]
    /\ reply' = NoMsg /\ sent' = NoMsg
    /\ UNCHANGED <<now, heap, DRAFTS, SCHEDULES, h>>

(* the confirmation is sent; line 358 *)
JobConfirmed(j) ==
    /\ UNCHANGED probe
    /\ jobs[j].pc = "confirm" /\ Ready
    /\ sent' = M(j, "confirm")
    /\ SCHEDULES' = Pop(SCHEDULES, jobs[j].uid)
    /\ jobs' = Finish(jobs, j)
    /\ heap' = Collect(heap, Live(DRAFTS, jobs', h))
    /\ reply' = NoMsg /\ channel' = NoPost
    /\ UNCHANGED <<now, DRAFTS, h>>

(* publish_to_channel or the confirmation raises: lines 361-363 *)
JobFailed(j) ==
    /\ UNCHANGED probe
    /\ jobs[j].pc \in {"publish", "confirm"} /\ Ready
    /\ jobs' = [jobs EXCEPT ![j].pc = "report", ![j].err = jobs[j].pc]
    /\ reply' = NoMsg /\ channel' = NoPost /\ sent' = NoMsg
    /\ UNCHANGED <<now, heap, DRAFTS, SCHEDULES, h>>

(* the error report of line 363 is sent, or raises itself (ok = FALSE) *)
JobReported(j, ok) ==
    /\ UNCHANGED probe
    /\ jobs[j].pc = "report" /\ Ready
    /\ sent' = IF ok THEN M(j, "error") ELSE NoMsg
    /\ jobs' = Finish(jobs, j)
    /\ heap' = Collect(heap, Live(DRAFTS, jobs', h))
    /\ reply' = NoMsg /\ channel' = NoPost
    /\ UNCHANGED <<now, DRAFTS, SCHEDULES, h>>

(* CancelledError is thrown into the task at its current await; a request *)
(* already handed to the transport may or may not have gone out            *)
JobCancelled(j, out) ==
    /\ UNCHANGED probe
    /\ ~done(jobs, j) /\ jobs[j].must_cancel
    /\ out => jobs[j].pc \in {"publish", "confirm", "report"}
    /\ channel' = IF out /\ jobs[j].pc = "publish" THEN PostOf(jobs, j) ELSE NoPost
    /\ sent' = IF out /\ jobs[j].pc = "confirm" THEN M(j, "confirm")
               ELSE IF out /\ jobs[j].pc = "report" THEN M(j, "error")
               ELSE NoMsg
    /\ jobs' = Finish(jobs, j)
    /\ heap' = Collect(heap, Live(DRAFTS, jobs', h))
    /\ reply' = NoMsg
    /\ UNCHANGED <<now, DRAFTS, SCHEDULES, h>>

Tick ==
    /\ UNCHANGED probe
    /\ now < MaxTime /\ Ready
    /\ now' = now + 1
    /\ reply' = NoMsg /\ channel' = NoPost /\ sent' = NoMsg
    /\ UNCHANGED <<heap, DRAFTS, SCHEDULES, jobs, h>>

Next ==
    \/ \E u \in Users : Unauthorized(u)
    \/ \E u \in Users, t \in Texts : OnText(u, t)
    \/ \E u \in Users, m \in MediaIn, cap \in Captions : OnMedia(u, m, cap)
    \/ \E u \in Users, s \in TimerArgs : CmdTimer(u, s)
    \/ \E u \in Users : CmdCancelTimer(u)
    \/ \E u \in Users : CmdWhen(u)
    \/ \E u \in Users : OnCbPrev(u)
    \/ \E u \in Users : OnCbPub(u)
    \/ PubSent
    \/ PubFailed
    \/ PubDone
    \/ \E u \in Users : OnCbClr(u)
    \/ ClrDone
    \/ ClrFailed
    \/ \E j \in DOMAIN jobs : JobStart(j)
    \/ \E j \in DOMAIN jobs : JobWake(j)
    \/ \E j \in DOMAIN jobs : JobPublished(j)
    \/ \E j \in DOMAIN jobs : JobConfirmed(j)
    \/ \E j \in DOMAIN jobs : JobFailed(j)
    \/ \E j \in DOMAIN jobs, ok \in BOOLEAN : JobReported(j, ok)
    \/ \E j \in DOMAIN jobs, out \in BOOLEAN : JobCancelled(j, out)
    \/ Tick

Spec == Init /\ [][Next]_vars

(* the event loop runs every task that can take a step, and time passes *)
JobRuns == \E j \in DOMAIN jobs : JobStart(j) \/ JobWake(j) \/ \E out \in BOOLEAN : JobCancelled(j, out)

FairSpec == Spec /\ WF_vars(JobRuns) /\ WF_vars(Tick)

(* ------------- the aggregator and the resolver on a draft -------------- *)
(* probe.added: every entry handed to add_media_to_draft, oldest first;    *)
(* probe.draft: the Draft they were folded into; probe.n: the calls made   *)
(* since the initial state; probe.plan, probe.preview: what was last       *)
(* resolved for the channel and for the operator                           *)
Kinds == {"photo", "video", "document", "animation", "audio", "voice"}

Photos(n) == [i \in 1 .. n |-> <<"photo", i>>]

RECURSIVE Aggregate(_)
Aggregate(adds) ==
    IF adds = <<>> THEN Draft
    ELSE add_media_to_draft(Aggregate(SubSeq(adds, 1, Len(adds) - 1)),
                            adds[Len(adds)][1], adds[Len(adds)][2])

(* drafts the handlers have built: nothing or a document, then no or eight photos *)
Starts ==
    {lead \o Photos(n) : lead \in {<<>>, << <<"document", 0>> >>}, n \in {0, AlbumLimit - 2}}

InitDraft ==
    /\ now = 0 /\ heap = <<>> /\ DRAFTS = <<>> /\ SCHEDULES = <<>> /\ jobs = <<>> /\ h = Idle
    /\ channel = NoPost /\ sent = NoMsg /\ reply = NoMsg
    /\ probe \in {[added |-> a, draft |-> Aggregate(a), n |-> 0, plan |-> None, preview |-> None] :
                      a \in Starts}

(* on_photo .. on_voice, line 2 of each: add_media_to_draft(draft, kind, file_id) *)
AddMedia(kind) ==
    /\ probe.n < MaxAdds
    /\ probe' = [added |-> Append(probe.added, <<kind, Len(probe.added) + 1>>),
                 draft |-> add_media_to_draft(probe.draft, kind, Len(probe.added) + 1),
                 n |-> probe.n + 1, plan |-> None, preview |-> None]
    /\ UNCHANGED <<now, heap, DRAFTS, SCHEDULES, jobs, h, channel, sent, reply>>

(* on_text and the captions of the media handlers *)
SetText(t) ==
    /\ probe' = [probe EXCEPT !.draft = set_text_from(@, t), !.plan = None, !.preview = None]
    /\ UNCHANGED <<now, heap, DRAFTS, SCHEDULES, jobs, h, channel, sent, reply>>

(* publish_to_channel(d) and send_preview(uid, d) on the draft *)
Resolve ==
    /\ probe.plan = None
    /\ probe' = [probe EXCEPT !.plan = Some(publish_to_channel(probe.draft)),
                              !.preview = Some(send_preview(probe.draft))]
    /\ UNCHANGED <<now, heap, DRAFTS, SCHEDULES, jobs, h, channel, sent, reply>>

NextDraft ==
    \/ \E kind \in Kinds : AddMedia(kind)
    \/ \E t \in Texts : SetText(t)
    \/ Resolve

SpecDraft == InitDraft /\ [][NextDraft]_vars

(* -------------------------- the parser on its own ---------------------- *)
(* probe.s: the time expression; probe.when: parse_when(s, now)            *)
Nows == {0, 18 * 60 + 29, 18 * 60 + 30, 20 * 60, MinutesPerDay - 1, 59 * MinutesPerDay + 18 * 60 + 30}

WhenArgs ==
    {[form |-> "hhmm", hh |-> hh, mm |-> mm] : hh \in {0, 18, 20, 23, 24, 99}, mm \in {0, 30, 59, 60}}
    \cup {[form |-> "abs", y |-> y, mo |-> mo, d |-> d, hh |-> hh, mm |-> mm] :
             y \in {EpochYear, EpochYear + 1}, mo \in {0, 1, 2, 12, 13}, d \in {0, 1, 28, 29, 30, 31, 32},
             hh \in {9, 24}, mm \in {0, 60}}
    \cup {[form |-> "rel", n |-> n, unit |-> unit] : n \in {0, 45}, unit \in {"m", "min", "h", "hr", "d"}}
    \cup {[form |-> "nomatch"]}

InitWhen ==
    /\ now \in Nows
    /\ heap = <<>> /\ DRAFTS = <<>> /\ SCHEDULES = <<>> /\ jobs = <<>> /\ h = Idle
    /\ channel = NoPost /\ sent = NoMsg /\ reply = NoMsg
    /\ probe = NoProbe

(* line 332: when = parse_when(when_str, now) *)
ParseWhen(s) ==
    /\ probe' = [s |-> s, when |-> parse_when(s, now)]
    /\ UNCHANGED <<now, heap, DRAFTS, SCHEDULES, jobs, h, channel, sent, reply>>

NextWhen == \E s \in WhenArgs : ParseWhen(s)

SpecWhen == InitWhen /\ [][NextWhen]_vars

(* ------------------------------ properties ----------------------------- *)
(* the user's draft as get_draft would return it *)
DraftOf(u) == IF u \in DOMAIN DRAFTS THEN heap[DRAFTS[u]] ELSE Draft

(* the task registered for u, NoTask if none *)
Registered(u) == IF u \in DOMAIN SCHEDULES THEN SCHEDULES[u].task ELSE NoTask

(* C1: snapshot isolation. What a scheduled job hands to publish_to_channel,  *)
(* and what it delivers to the channel, is the user's draft (text and media   *)
(* list) as it was at the cmd_timer call that created the job, whatever edits *)
(* the draft saw in between.                                                  *)
SnapshotIsolation ==
    /\ \A j \in DOMAIN jobs : jobs[j].pc = "publish" => jobs[j].arg = jobs[j].snap
    /\ channel.by # NoTask => channel.d = channel.snap

(* a job has just published its snapshot while the draft has been edited *)
SnapshotIsolationWitness ==
    /\ channel.by # NoTask
    /\ channel.d = channel.snap
    /\ ~is_empty(DraftOf(ADMIN_USER_ID))
    /\ DraftOf(ADMIN_USER_ID) # channel.snap

(* C2: every user has at most one live job (created, not cancelled, not      *)
(* finished), so no second job of the user can still reach its publish call. *)
AtMostOneLiveJob ==
    \A u \in Users :
        Cardinality({j \in DOMAIN jobs : jobs[j].uid = u /\ ~done(jobs, j) /\ ~jobs[j].must_cancel}) <= 1

(* a second cmd_timer has just cancelled a pending job and created its own *)
AtMostOneLiveJobWitness ==
    \E i, j \in DOMAIN jobs :
        /\ jobs[i].by = "timer" /\ Unfired(jobs, i) /\ jobs[i].must_cancel
        /\ jobs[j].pc = "created" /\ ~jobs[j].must_cancel

(* C3: a job superseded by a second cmd_timer before it began to publish     *)
(* never delivers its payload, also when its delay had elapsed; the job that *)
(* superseded it delivers the draft as it stood at the second call.          *)
SupersededNeverPublishes ==
    [][\A j \in DOMAIN jobs :
          channel'.by = j =>
             /\ ~(jobs[j].by = "timer" /\ jobs[j].cut \in {"created", "sleep"})
             /\ channel'.d = jobs[j].snap]_vars

(* the second cmd_timer has just replaced a job whose delay had elapsed and *)
(* whose snapshot differs from the new one                                  *)
SupersededNeverPublishesWitness ==
    /\ reply.msg = "scheduled"
    /\ \E i, j \in DOMAIN jobs :
          /\ jobs[i].by = "timer" /\ jobs[i].cut = "sleep" /\ now >= jobs[i].when
          /\ jobs[j].pc = "created" /\ Registered(ADMIN_USER_ID) = j
          /\ jobs[i].snap # jobs[j].snap

(* C4: when the publish of a scheduled job fails at fire time, no entry for  *)
(* the user remains in the registry once the job has ended, and the job has  *)
(* called the transport publish at most once.                                *)
FailedJobLeavesRegistry ==
    [][\A j \in DOMAIN jobs :
          (jobs[j].err = "publish" /\ ~done(jobs, j) /\ done(jobs', j)) =>
             /\ jobs[j].uid \notin DOMAIN SCHEDULES'
             /\ jobs[j].calls <= 1]_vars

(* C5: once the publish of a scheduled job has failed, no later operation on *)
(* the user's state makes the job end without its failure report having     *)
(* gone to the operator.                                                     *)
FailureAlwaysReported ==
    [][\A j \in DOMAIN jobs :
          (jobs[j].err = "publish" /\ jobs[j].by # "" /\ ~done(jobs, j) /\ done(jobs', j)) =>
             sent' = M(j, "error")]_vars

(* C6: cmd_cancel_timer, issued while the user's registered job has not      *)
(* begun to publish, removes the registry entry, answers that the timer was  *)
(* cancelled and requests the task's cancellation; a job so cancelled never  *)
(* delivers its snapshot to the channel.                                     *)
CancelStopsPendingJob ==
    [][/\ \A u \in Users :
             (/\ reply'.msg \in {"cancelled", "no_timer"}
              /\ Registered(u) # NoTask
              /\ Unfired(jobs, Registered(u))) =>
                /\ u \notin DOMAIN SCHEDULES'
                /\ reply'.msg = "cancelled"
                /\ jobs'[Registered(u)].must_cancel
       /\ \A j \in DOMAIN jobs :
             channel'.by = j => ~(jobs[j].by = "cancel" /\ jobs[j].cut \in {"created", "sleep"})]_vars

(* cmd_cancel_timer has just cancelled a sleeping job *)
CancelStopsPendingJobWitness ==
    /\ reply.msg = "cancelled"
    /\ ADMIN_USER_ID \notin DOMAIN SCHEDULES
    /\ \E j \in DOMAIN jobs : jobs[j].by = "cancel" /\ jobs[j].cut = "sleep" /\ jobs[j].must_cancel

(* C7: cmd_cancel_timer, issued when the user has no registry entry or the   *)
(* registered job has already ended, answers that there is no timer and      *)
(* leaves the draft store and the registry exactly as they were.             *)
CancelWithoutJobIsNoop ==
    [][\A u \in Users :
          (/\ authorized(u)
           /\ reply'.msg \in {"cancelled", "no_timer"}
           /\ (Registered(u) = NoTask \/ done(jobs, Registered(u)))) =>
             /\ reply'.msg = "no_timer"
             /\ DRAFTS' = DRAFTS /\ heap' = heap
             /\ SCHEDULES' = SCHEDULES]_vars

(* C8: a cancellation that reaches a job after it has called the transport   *)
(* publish does not end that call: the job leaves the call only with the     *)
(* post delivered or with the transport's own error.                         *)
InFlightPublishCompletes ==
    [][\A j \in DOMAIN jobs :
          (jobs[j].pc = "publish" /\ jobs[j].must_cancel /\ done(jobs', j)) => channel'.by = j]_vars

(* C9: a rejected request (cmd_timer with an unparseable time or an empty    *)
(* draft, publish-now on an empty draft) calls no transport publish and      *)
(* leaves unchanged the user's draft (an absent one being the empty draft    *)
(* get_draft creates), the registry and every task, so a pending job keeps   *)
(* its entry, its target instant, its snapshot and its ability to fire.      *)
RejectedRequestChangesNothing ==
    [][reply'.msg \in {"bad_time", "empty", "nothing"} =>
          /\ \A u \in Users : DraftOf(u)' = DraftOf(u)
          /\ SCHEDULES' = SCHEDULES
          /\ jobs' = jobs
          /\ \A j \in DOMAIN jobs : ~done(jobs, j) => heap'[jobs'[j].draft] = heap[jobs[j].draft]
          /\ h' = h
          /\ channel' = NoPost]_vars

(* a schedule request was rejected while a job was pending *)
RejectedRequestChangesNothingWitness ==
    /\ reply.msg \in {"bad_time", "empty"}
    /\ Registered(ADMIN_USER_ID) # NoTask
    /\ Unfired(jobs, Registered(ADMIN_USER_ID))
    /\ ~jobs[Registered(ADMIN_USER_ID)].must_cancel

(* C10: when the transport call of publish-now fails, the user's draft is    *)
(* the same object with the same text and media as when the request was      *)
(* made, so a retry publishes the same content.                              *)
FailedPublishKeepsDraft ==
    [][(h.op = "pub" /\ reply'.msg = "pub_error") =>
          /\ DRAFTS' = DRAFTS
          /\ heap'[DRAFTS'[h.uid]] = h.arg
          /\ ~is_empty(heap'[DRAFTS'[h.uid]])]_vars

(* publish-now has just failed on a draft with text and media *)
FailedPublishKeepsDraftWitness ==
    /\ reply.msg = "pub_error"
    /\ DraftOf(ADMIN_USER_ID).text # ""
    /\ DraftOf(ADMIN_USER_ID).media # <<>>

(* C11: after every successful publish of a user's content, by publish-now   *)
(* or by a scheduled job, and after every clear, the user's entry of the     *)
(* draft store is present and holds the empty draft.                         *)
PublishOrClearResetsDraft ==
    [][/\ sent'.msg = "confirm" =>
             /\ jobs[sent'.task].uid \in DOMAIN DRAFTS'
             /\ heap'[DRAFTS'[jobs[sent'.task].uid]] = Draft
       /\ (h.op = "pub" /\ reply'.msg = "published") =>
             /\ h.uid \in DOMAIN DRAFTS'
             /\ heap'[DRAFTS'[h.uid]] = Draft
       /\ h'.op = "clr" =>
             /\ h'.uid \in DOMAIN DRAFTS'
             /\ heap'[DRAFTS'[h'.uid]] = Draft]_vars

(* C12: an update from anyone but the operator is answered with the denial   *)
(* and nothing else: it changes neither store nor any task, starts no        *)
(* handler and posts nothing; so the draft store, the registry and the       *)
(* tasks only ever hold the operator's identity.                             *)
OnlyOperatorTouchesState ==
    [][/\ DOMAIN DRAFTS' \subseteq {ADMIN_USER_ID}
       /\ DOMAIN SCHEDULES' \subseteq {ADMIN_USER_ID}
       /\ \A j \in DOMAIN jobs' : ~done(jobs', j) => jobs'[j].uid = ADMIN_USER_ID
       /\ reply'.msg = "denied" =>
             /\ DRAFTS' = DRAFTS /\ heap' = heap
             /\ SCHEDULES' = SCHEDULES /\ jobs' = jobs
             /\ h' = h
             /\ channel' = NoPost]_vars

(* a stranger has just been denied while the operator has a draft and a *)
(* pending job                                                          *)
OnlyOperatorTouchesStateWitness ==
    /\ reply.msg = "denied"
    /\ ~is_empty(DraftOf(ADMIN_USER_ID))
    /\ Registered(ADMIN_USER_ID) # NoTask
    /\ Unfired(jobs, Registered(ADMIN_USER_ID))

(* the n entries of s added last, oldest first *)
MostRecent(s, n) == [i \in 1 .. (IF Len(s) < n THEN Len(s) ELSE n) |-> s[i + Len(s) - (IF Len(s) < n THEN Len(s) ELSE n)]]

NonPV(media) == LET Other(m) == ~IsPV(m) IN SelectSeq(media, Other)

OfKind(media, kind) == LET Is(m) == m[1] = kind IN SelectSeq(media, Is)

(* the photo/video additions came in one run, after every other addition *)
PVRun(added) ==
    \E k \in 0 .. Len(added) :
        \A i \in 1 .. Len(added) : IsPV(added[i]) <=> i > k

TrimSparesOtherKinds ==
    [][(probe'.n = probe.n + 1 /\ IsPV(probe'.added[Len(probe'.added)])) =>
          /\ NonPV(probe'.draft.media) = NonPV(probe.draft.media)
          /\ PV(probe'.draft.media) =
                MostRecent(Append(PV(probe.draft.media), probe'.added[Len(probe'.added)]), AlbumLimit)]_vars

(* C15: adding a document, animation, audio or voice entry leaves exactly   *)
(* that one entry of its kind and every entry of any other kind as it was,  *)
(* in the same order; so no such kind ever occurs twice in a draft.         *)
SingleSlotPerKind ==
    [][/\ (probe'.n = probe.n + 1 /\ ~IsPV(probe'.added[Len(probe'.added)])) =>
             LET e == probe'.added[Len(probe'.added)] IN
               /\ OfKind(probe'.draft.media, e[1]) = <<e>>
               /\ \A k \in Kinds \ {e[1]} :
                     OfKind(probe'.draft.media, k) = OfKind(probe.draft.media, k)
               /\ PV(probe'.draft.media) = PV(probe.draft.media)
               /\ SubSeq(probe'.draft.media, 1, Len(probe'.draft.media) - 1) =
                     SelectSeq(probe.draft.media, LAMBDA m : m[1] # e[1])
       /\ \A k \in Kinds \ {"photo", "video"} : Len(OfKind(probe'.draft.media, k)) <= 1]_vars

(* a second document has replaced the first in a draft that holds photos, a *)
(* video and a voice entry                                                   *)
SingleSlotPerKindWitness ==
    /\ Len(OfKind(probe.added, "document")) = 2
    /\ probe.added[Len(probe.added)][1] = "document"
    /\ OfKind(probe.draft.media, "document") = <<probe.added[Len(probe.added)]>>
    /\ OfKind(probe.draft.media, "voice") # <<>>
    /\ OfKind(probe.draft.media, "video") # <<>>
    /\ OfKind(probe.draft.media, "photo") # <<>>

(* C16: what publish_to_channel hands to the transport for a non-empty      *)
(* draft, and send_preview alike: with two or more photo/video entries an   *)
(* album of exactly these, in the order they arrived, the text captioning   *)
(* the first and none of the others; else, with any media, the single entry *)
(* added last, captioned with the text unless it is empty; else the text.   *)
ResolutionAsSpecified ==
    (probe.plan # None /\ ~is_empty(probe.draft)) =>
        LET d == probe.draft
            plan == probe.plan[1]
            pv == PV(d.media)
            newest == probe.added[Len(probe.added)] IN
        /\ probe.preview = probe.plan
        /\ IF Len(pv) >= 2
           THEN /\ plan.call = "send_media_group"
                /\ DOMAIN plan.media = 1 .. Len(pv)
                /\ \A i \in 1 .. Len(pv) :
                      /\ plan.media[i].kind = pv[i][1]
                      /\ plan.media[i].media = pv[i][2]
                      /\ plan.media[i].caption = IF i = 1 THEN Some(d.text) ELSE None
           ELSE IF d.media # <<>>
           THEN /\ plan.call = "send_" \o newest[1]
                /\ plan.media = newest[2]
                /\ plan.caption = IF d.text = "" THEN None ELSE Some(d.text)
           ELSE plan = [call |-> "send_message", text |-> d.text]

(* an album was resolved for a captioned draft that also holds a document *)
ResolutionAsSpecifiedWitness ==
    /\ probe.plan # None
    /\ probe.draft.text # ""
    /\ Len(PV(probe.draft.media)) >= 3
    /\ OfKind(probe.draft.media, "document") # <<>>
    /\ OfKind(probe.draft.media, "video") # <<>>
    /\ probe.plan[1].call = "send_media_group"

(* the instant at hour hh, minute mm of the calendar day of t *)
Today(t, hh, mm) == (t - (t % MinutesPerDay)) + hh * 60 + mm

(* C17: for every expression HH:MM and every now, parse_when gives HH:MM of *)
(* now's day when that is after now and one day later otherwise, so an      *)
(* instant after now and at most 24 hours after it.                         *)
ClockTimeRollsToNextDay ==
    (probe # NoProbe /\ probe.s.form = "hhmm") =>
        /\ probe.when = IF Today(now, probe.s.hh, probe.s.mm) > now
                        THEN Today(now, probe.s.hh, probe.s.mm)
                        ELSE Today(now, probe.s.hh, probe.s.mm) + MinutesPerDay
        /\ probe.when > now
        /\ probe.when <= now + MinutesPerDay

(* C18: an expression HH:MM or YYYY-MM-DD HH:MM whose fields are out of     *)
(* range (month 13, February 30, hour 24, minute 60) parses to no match,    *)
(* never to an error.                                                       *)
OutOfRangeIsNoMatch ==
    /\ (probe # NoProbe /\ probe.s.form = "hhmm" /\ (probe.s.hh > 23 \/ probe.s.mm > 59)) =>
          probe.when = NoWhen
    /\ (probe # NoProbe /\ probe.s.form = "abs"
          /\ ~ValidDate(probe.s.y, probe.s.mo, probe.s.d, probe.s.hh, probe.s.mm)) =>
          probe.when = NoWhen
    /\ probe # NoProbe => probe.when # ValueError

(* C19: cmd_when changes neither the draft store nor the registry, and it   *)
(* reports an instant exactly when the user has a job that has not ended    *)
(* (fired with or without success, or cancelled): the instant of that job.  *)
PeekReportsPendingJob ==
    [][(reply'.msg \in {"none", "scheduled"} /\ jobs' = jobs) =>
          /\ DRAFTS' = DRAFTS /\ heap' = heap
          /\ SCHEDULES' = SCHEDULES
          /\ reply'.msg = "scheduled" <=>
                (Registered(ADMIN_USER_ID) # NoTask /\ ~done(jobs, Registered(ADMIN_USER_ID)))
          /\ reply'.msg = "scheduled" => reply'.when = jobs[Registered(ADMIN_USER_ID)].when]_vars

(* a job that waits for its instant, which the clock of the model reaches *)
Pending(j) ==
    /\ j \in DOMAIN jobs
    /\ jobs[j].pc \in {"created", "sleep"}
    /\ ~jobs[j].must_cancel
    /\ jobs[j].when <= MaxTime

(* the job has called publish_to_channel with its snapshot *)
Fired(j) == j \in DOMAIN jobs /\ jobs[j].pc = "publish" /\ jobs[j].arg = jobs[j].snap

(* the job was cancelled or superseded *)
Dropped(j) == j \in DOMAIN jobs /\ jobs[j].must_cancel

(* C20: every job cmd_timer created calls publish_to_channel with its       *)
(* snapshot sooner or later, unless it is cancelled or superseded (no job   *)
(* waits forever, and a job stops waiting only by that call or by being     *)
(* dropped): with its first step when the instant is already due; and when  *)
(* the publish and the confirmation have succeeded the user's registry      *)
(* entry is removed.                                                        *)
ScheduledJobFires ==
    /\ \A j \in 1 .. MaxJobs : []<>(~Pending(j))
    /\ [][\A j \in DOMAIN jobs :
             /\ (Pending(j) /\ ~Pending(j)') => (Fired(j)' \/ Dropped(j)')
             /\ (jobs[j].pc = "created" /\ jobs[j].when <= now /\ ~jobs[j].must_cancel
                   /\ jobs'[j] # jobs[j] /\ ~jobs'[j].must_cancel) => Fired(j)'
             /\ (jobs[j].pc = "confirm" /\ ~jobs[j].must_cancel /\ sent' = M(j, "confirm")) =>
                   jobs[j].uid \notin DOMAIN SCHEDULES']_vars

(* a job that slept until its instant has called publish_to_channel with   *)
(* its snapshot, the draft having changed since                             *)
ScheduledJobFiresWitness ==
    \E j \in DOMAIN jobs :
        /\ Fired(j) /\ ~jobs[j].must_cancel
        /\ jobs[j].when > 0
        /\ DraftOf(ADMIN_USER_ID) # jobs[j].snap

(* C21: publish-now and clear, once they have completed, have removed the   *)
(* user's registry entry and cancelled the registered job, so a job that    *)
(* was still waiting never delivers its snapshot and cmd_when answers that  *)
(* nothing is scheduled; a publish-now that fails leaves the registry and   *)
(* the job as they were.                                                    *)
PublishOrClearDropsJob ==
    [][/\ reply'.msg \in {"published", "cleared"} =>
             /\ h.uid \notin DOMAIN SCHEDULES'
             /\ (Registered(h.uid) # NoTask /\ ~done(jobs, Registered(h.uid))) =>
                   jobs'[Registered(h.uid)].must_cancel
       /\ \A j \in DOMAIN jobs :
             channel'.by = j => ~(jobs[j].by \in {"pub", "clr"} /\ jobs[j].cut \in {"created", "sleep"})
       /\ (reply'.msg \in {"none", "scheduled"} /\ jobs' = jobs) =>
             (reply'.msg = "none" <=> ADMIN_USER_ID \notin DOMAIN SCHEDULES)
       /\ (h.op = "pub" /\ reply'.msg \in {"pub_error", "pub_error_edit"}) =>
             /\ SCHEDULES' = SCHEDULES
             /\ jobs' = jobs]_vars

(* publish-now has just completed while a job whose instant had come was *)
(* still asleep                                                          *)
PublishOrClearDropsJobWitness ==
    /\ reply.msg = "published"
    /\ ADMIN_USER_ID \notin DOMAIN SCHEDULES
    /\ \E j \in DOMAIN jobs :
          /\ jobs[j].by = "pub" /\ jobs[j].cut = "sleep" /\ jobs[j].must_cancel
          /\ now >= jobs[j].when

====
